---- MODULE Spec2Model ----
(***************************************************************************)
(* Student GPA prediction pipeline (main.py, gui.py, src/predict.py,       *)
(* src/feature_engineering.py).                                            *)
(*                                                                         *)
(* Number representation.  The program computes on float64; the model uses *)
(* fixed point:                                                            *)
(*   - a numeric feature value is an integer in the feature's own unit     *)
(*     (homework_completion and gpa in hundredths, the others in units);   *)
(*   - means and scales of the fitted StandardScaler are in hundredths of  *)
(*     that unit; a standardized value is in thousandths;                  *)
(*   - the raw output of the regression is in thousandths of a grade       *)
(*     point, the value predict_gpa returns is in hundredths (2 decimals). *)
(* A college name (major) is the integer rank of the name in sorted order. *)
(***************************************************************************)
EXTENDS Integers, Sequences, FiniteSets, TLC

VARIABLES
    \* ---- storage (the project directory) ----
    project_root_isdir,   \* os.path.isdir(project_root)
    models_dir_exists,    \* os.path.exists(<root>/models)
    files,                \* file name -> content of <root>/models/<name>
    \* ---- one predict_gpa call ----
    new_student_data,     \* the caller's argument
    pc,                   \* position of the call in predict_gpa
    model,                \* local: joblib.load(model_path)
    preprocessor,         \* local: joblib.load(preprocessor_path)
    input_df,             \* local: pd.DataFrame([new_student_data])
    input_processed,      \* local: preprocessor.transform(input_df)
    raw_pred,             \* local: model.predict(input_processed)[0]
    outcome,              \* what the call returned or raised
    \* ---- one load_and_clean_data call ----
    csv,                  \* data/simulated_data.csv as read_csv sees it
    cpc,                  \* position of the call in load_and_clean_data
    df,                   \* local: the DataFrame being cleaned
    clip_i,               \* local: index of the clip_rules entry being handled
    printed,              \* column -> error_count printed by the clip loop
    coutcome,             \* what the call returned or raised
    \* ---- runs of main.py ----
    data_file,            \* run number -> data/simulated_data.csv as load_data splits it
    results_writable,     \* whether the charts can be written under results/
    run,                  \* number of the run in progress, or of the last run
    tpc,                  \* position of the run in main
    X_train,              \* local of main: the training split
    X_test,               \* local of main: the test split
    y_train,              \* local of main: the labels of the training split
    main_preprocessor,    \* the global preprocessor of main.py
    X_train_processed,    \* local of main
    X_test_processed,     \* local of main
    lr_model,             \* local of train_models
    fit_log,              \* the calls of preprocessor.fit_transform so far
    exits,                \* how each run ended
    \* ---- the window of gui.py ----
    input_vars,           \* feature -> content of its input widget
    gui_pc,               \* "ready", or "predicting" inside _predict
    gpa_var,              \* the displayed GPA
    rating_var,           \* the displayed rating
    detail_text,          \* the lines of the feature-detail text box
    messagebox            \* the dialog the last handler showed

predictVars == <<new_student_data, pc, model, preprocessor, input_df,
                 input_processed, raw_pred, outcome>>
storageVars == <<project_root_isdir, models_dir_exists, files>>
cleanVars == <<csv, cpc, df, clip_i, printed, coutcome>>
trainEnv == <<data_file, results_writable>>
trainLocals == <<X_train, X_test, y_train, main_preprocessor, X_train_processed,
                 X_test_processed, lr_model>>
trainVars == <<trainEnv, run, tpc, trainLocals, fit_log, exits>>
displayVars == <<gpa_var, rating_var, detail_text>>
guiVars == <<input_vars, gui_pc, displayVars, messagebox>>
vars == <<storageVars, predictVars, cleanVars, trainVars, guiVars>>

-----------------------------------------------------------------------------
(* Feature schema *)

\* src/src/predict.py:47-50
required_features ==
    <<"major", "gender", "attendance", "homework_completion",
      "lib_borrow", "club_participation", "class_interaction", "exam_score">>

\* src/src/predict.py:56-57 and src/src/feature_engineering.py:12-15
numeric_features ==
    <<"attendance", "homework_completion", "lib_borrow",
      "class_interaction", "exam_score">>

\* src/src/feature_engineering.py:17
cat_features == <<"major", "gender", "club_participation">>

Range(s) == {s[i] : i \in DOMAIN s}

RECURSIVE SumSeq(_)
SumSeq(s) == IF s = <<>> THEN 0 ELSE Head(s) + SumSeq(Tail(s))

\* The subsequence of s whose elements satisfy Keep, in order.
RECURSIVE SelectInOrder(_, _)
SelectInOrder(s, keep) ==
    IF s = <<>> THEN <<>>
    ELSE IF Head(s) \in keep
         THEN <<Head(s)>> \o SelectInOrder(Tail(s), keep)
         ELSE SelectInOrder(Tail(s), keep)

-----------------------------------------------------------------------------
(* Python values and pandas columns *)

\* A Python scalar: its type and, for numbers, its value (see the header for
\* the unit); a str or None carries v only to tell two of them apart.
Cell(t, v) == [t |-> t, v |-> v]

\* dtype of the one-row DataFrame column pd.DataFrame([row]) builds from a
\* scalar of Python type t (src/src/predict.py:44).
DTypeOf(t) ==
    CASE t = "int" -> "int64"
      [] t = "float" -> "float64"
      [] t = "bool" -> "bool"
      [] OTHER -> "object"


\* Mutant of is_numeric_dtype: only a str value is taken as non-numeric.
is_not_str(col) == col.t # "str"

\* pd.api.types.is_numeric_dtype (src/src/predict.py:59): integer, float and
\* bool dtypes are numeric, object is not.
is_numeric_dtype(col) == col.dtype \in {"int64", "float64", "bool"}

\* pd.DataFrame([new_student_data]): one column per key of the dict, a fresh
\* object that shares nothing with the dict.
DataFrame(row) ==
    [k \in DOMAIN row |-> [dtype |-> DTypeOf(row[k].t), v |-> row[k].v, t |-> row[k].t]]

-----------------------------------------------------------------------------
(* Feature Transformer: ColumnTransformer of StandardScaler and
   OneHotEncoder(drop="first"), src/src/feature_engineering.py:19-26 *)

RECURSIVE SortedSeq(_)
\* The elements of a finite set of integers in increasing order.
SortedSeq(S) ==
    IF S = {} THEN <<>>
    ELSE LET m == CHOOSE x \in S : \A y \in S : x <= y
         IN <<m>> \o SortedSeq(S \ {m})

RECURSIVE IsqrtBetween(_, _, _)
\* The r in lo..hi with r*r <= n < (r+1)*(r+1), by bisection.
IsqrtBetween(n, lo, hi) ==
    IF lo = hi THEN lo
    ELSE LET mid == (lo + hi + 1) \div 2
         IN IF mid * mid <= n THEN IsqrtBetween(n, mid, hi)
            ELSE IsqrtBetween(n, lo, mid - 1)

\* floor of the square root (np.sqrt on the variance)
Isqrt(n) == IsqrtBetween(n, 0, 30000)

\* Mutant of ScalerFit: a zero scale is replaced by the smallest scale the
\* representation has instead of 1.0.
ScalerFitTinyScale(xs) ==
    LET n == Len(xs)
        mean == (SumSeq(xs) * 100) \div n
        devs == [i \in 1..n |-> (xs[i] * 100 - mean) * (xs[i] * 100 - mean)]
        var == SumSeq(devs) \div n
    IN [mean |-> mean, scale |-> IF var = 0 THEN 1 ELSE Isqrt(var)]

\* StandardScaler.fit on one column: mean_ and scale_ (population standard
\* deviation; a zero scale is replaced by 1.0), both in hundredths.
ScalerFit(xs) ==
    LET n == Len(xs)
        mean == (SumSeq(xs) * 100) \div n
        devs == [i \in 1..n |-> (xs[i] * 100 - mean) * (xs[i] * 100 - mean)]
        var == SumSeq(devs) \div n
    IN [mean |-> mean, scale |-> IF var = 0 THEN 100 ELSE Isqrt(var)]

\* StandardScaler.transform of one value, in thousandths.
ScalerTransform(st, x) == ((x * 100 - st.mean) * 1000) \div st.scale

RECURSIVE FirstSeen(_, _)
\* The distinct values of a sequence in the order of their first occurrence.
FirstSeen(s, seen) ==
    IF s = <<>> THEN <<>>
    ELSE IF Head(s) \in seen THEN FirstSeen(Tail(s), seen)
    ELSE <<Head(s)>> \o FirstSeen(Tail(s), seen \cup {Head(s)})

\* Mutant of EncoderFit: the categories are kept in first-seen order.
EncoderFitFirstSeen(cells) ==
    [t |-> cells[1].t,
     cats |-> FirstSeen([i \in DOMAIN cells |-> cells[i].v], {})]

\* OneHotEncoder.fit on one column: categories_ is the sorted array of the
\* distinct values; with drop="first" the dropped category is categories_[0].
EncoderFit(cells) ==
    [t |-> cells[1].t, cats |-> SortedSeq({cells[i].v : i \in DOMAIN cells})]

\* Python types whose values numpy compares as numbers.
NumberTypes == {"int", "float", "bool"}

\* Whether a value is one of the fitted categories_.
EncoderKnown(enc, c) ==
    /\ \/ c.t \in NumberTypes /\ enc.t \in NumberTypes
       \/ c.t = "str" /\ enc.t = "str"
    /\ c.v \in Range(enc.cats)

\* OneHotEncoder.transform of a known value: one indicator per category but
\* the first.  (handle_unknown is left at its default "error", so transform
\* raises ValueError on a value outside categories_, see Transform.)
EncoderTransform(enc, c) ==
    [i \in 1..(Len(enc.cats) - 1) |-> IF enc.cats[i + 1] = c.v THEN 1000 ELSE 0]

\* preprocessor.fit(X_train): X_train is a non-empty sequence of complete rows.
FitTransformer(rows) ==
    [kind |-> "ColumnTransformer",
     num |-> [f \in Range(numeric_features) |->
                 ScalerFit([i \in 1..Len(rows) |-> rows[i][f].v])],
     cat |-> [f \in Range(cat_features) |->
                 EncoderFit([i \in 1..Len(rows) |-> rows[i][f]])]]

RECURSIVE Flatten(_)
Flatten(ss) == IF ss = <<>> THEN <<>> ELSE Head(ss) \o Flatten(Tail(ss))

\* The categorical features of frame whose value is not in the fitted vocabulary.
UnknownCats(art, frame) ==
    {f \in Range(cat_features) : ~EncoderKnown(art.cat[f], frame[f])}

\* Mutant of Transform: remainder="passthrough" is applied to the columns of the
\* frame at hand, so a column beyond the fitted ones is appended to the output.
TransformPassthrough(art, frame) ==
    IF UnknownCats(art, frame) # {}
    THEN [ok |-> FALSE, exc |-> "ValueError", vec |-> <<>>]
    ELSE [ok |-> TRUE, exc |-> "",
          vec |-> [i \in 1..Len(numeric_features) |->
                      ScalerTransform(art.num[numeric_features[i]],
                                      frame[numeric_features[i]].v)]
                  \o Flatten([i \in 1..Len(cat_features) |->
                      EncoderTransform(art.cat[cat_features[i]],
                                       frame[cat_features[i]])])
                  \o [i \in 1..Cardinality(DOMAIN frame \ Range(required_features)) |-> 0]]

\* preprocessor.transform(input_df) on a one-row frame that has every fitted
\* column: the numeric block in declared order, then the indicator blocks;
\* remainder="passthrough" selected no column at fit time, so columns beyond
\* the fitted ones are not emitted.
Transform(art, frame) ==
    IF UnknownCats(art, frame) # {}
    THEN [ok |-> FALSE, exc |-> "ValueError", vec |-> <<>>]
    ELSE [ok |-> TRUE, exc |-> "",
          vec |-> [i \in 1..Len(numeric_features) |->
                      ScalerTransform(art.num[numeric_features[i]],
                                      frame[numeric_features[i]].v)]
                  \o Flatten([i \in 1..Len(cat_features) |->
                      EncoderTransform(art.cat[cat_features[i]],
                                       frame[cat_features[i]])])]

\* Number of columns transform emits.
OutputDim(art) ==
    Len(numeric_features)
    + SumSeq([i \in 1..Len(cat_features) |-> Len(art.cat[cat_features[i]].cats) - 1])

-----------------------------------------------------------------------------
(* Predictor: LinearRegression, src/main.py:128-129 *)

\* model.predict(input_processed)[0], in thousandths: intercept_ + coef_ . x.
\* predict checks the number of input columns against n_features_in_.
Predict(m, vec) ==
    IF Len(vec) # Len(m.coef)
    THEN [ok |-> FALSE, exc |-> "ValueError", raw |-> 0]
    ELSE [ok |-> TRUE, exc |-> "",
          raw |-> m.intercept
                  + SumSeq([i \in 1..Len(vec) |-> (m.coef[i] * vec[i]) \div 1000])]


\* Mutant of Clip: the upper limit is forgotten.
ClipLowerOnly(x, lo, hi) == IF x < lo THEN lo ELSE x

\* np.clip(pred_gpa, 1.0, 4.0) on thousandths (src/src/predict.py:67).
Clip(x, lo, hi) == IF x < lo THEN lo ELSE IF x > hi THEN hi ELSE x

\* round(pred_gpa, 2) (src/src/predict.py:68): thousandths to hundredths,
\* a tie going to the even neighbour as numpy's rint does.
Round2(x) ==
    LET q == x \div 10
        r == x % 10
    IN IF r < 5 THEN q
       ELSE IF r > 5 THEN q + 1
       ELSE IF q % 2 = 0 THEN q ELSE q + 1

-----------------------------------------------------------------------------
(* Bounds and sample data *)

\* How far beyond a declared range the sampled out-of-range values lie.
Spread == 3

\* Declared ranges, src/main.py:88-91 (gpa and homework_completion in hundredths).
clip_rules ==
    [gpa |-> <<100, 400>>, attendance |-> <<20, 32>>,
     homework_completion |-> <<60, 100>>, lib_borrow |-> <<0, 10>>,
     class_interaction |-> <<0, 20>>, exam_score |-> <<60, 100>>]

\* Order in which the clip loop visits clip_rules (dict order), src/main.py:88-92.
clip_order ==
    <<"gpa", "attendance", "homework_completion", "lib_borrow",
      "class_interaction", "exam_score">>

Keys == Range(required_features)
NumSet == Range(numeric_features)

\* Python type of a well-formed value of a feature.
TypeOfFeature(f) ==
    CASE f = "major" -> "str"
      [] f = "homework_completion" -> "float"
      [] OTHER -> "int"

MkRow(major, gender, att, hw, lib, club, inter, exam) ==
    [major |-> Cell("str", major), gender |-> Cell("int", gender),
     attendance |-> Cell("int", att), homework_completion |-> Cell("float", hw),
     lib_borrow |-> Cell("int", lib), club_participation |-> Cell("int", club),
     class_interaction |-> Cell("int", inter), exam_score |-> Cell("int", exam)]

\* Two small training splits.  In TrainA attendance has mean 26 and standard
\* deviation 3; in TrainB lib_borrow is constant and three colleges occur.
TrainA ==
    <<MkRow(2, 1, 29, 90, 6, 1, 15, 90),
      MkRow(1, 0, 23, 70, 2, 0, 5, 70)>>
TrainB ==
    <<MkRow(3, 0, 22, 60, 4, 1, 2, 62),
      MkRow(1, 1, 30, 98, 4, 0, 18, 95),
      MkRow(2, 0, 26, 80, 4, 1, 10, 80)>>

\* A college, a gender and a club flag that occur in no sampled training row.
UnseenCell(f) == Cell(TypeOfFeature(f), IF f = "major" THEN 9 ELSE 2)

\* A fitted LinearRegression over d columns.  The least-squares fit is the
\* library's; the model ranges over coefficient vectors of the right length.
Regression(d, c) ==
    [kind |-> "LinearRegression", intercept |-> 2500, coef |-> [i \in 1..d |-> c]]

\* Coefficients sampled: flat, mild, and steep in both directions.
SampleCoefs == {200, 3000, -3000}

\* The first example student of src/main.py:183-186.
BaseRow == MkRow(1, 1, 30, 98, 4, 1, 18, 95)

BaseNum == [f \in NumSet |-> BaseRow[f]]

\* A numeric profile with every feature at the same place of its range.
LevelProfile(l) ==
    [f \in NumSet |->
        Cell(TypeOfFeature(f),
             CASE l = "min" -> clip_rules[f][1]
               [] l = "max" -> clip_rules[f][2]
               [] l = "below" -> clip_rules[f][1] - Spread
               [] l = "above" -> clip_rules[f][2] + Spread)]

\* Values a caller may put in one numeric field: out of range, or of another type.
OddCells(f) ==
    {Cell(TypeOfFeature(f), clip_rules[f][1] - Spread),
     Cell(TypeOfFeature(f), clip_rules[f][2] + Spread),
     Cell("str", 0), Cell("NoneType", 0), Cell("bool", 1)}

NumericProfiles ==
    {LevelProfile(l) : l \in {"min", "max", "below", "above"}}
    \cup UNION {{[BaseNum EXCEPT ![f] = c] : c \in OddCells(f)} : f \in NumSet}
    \cup {[BaseNum EXCEPT ![f] = Cell("str", 0), ![g] = Cell("NoneType", 0)] :
             f \in NumSet, g \in NumSet}

CatProfiles ==
    [Range(cat_features) ->
        {Cell("int", 0), Cell("int", 1), Cell("str", 1), Cell("str", 2)}
        \cup {UnseenCell(f) : f \in Range(cat_features)}]

\* Well-typed categorical choices: a seen or an unseen value of each feature.
CatChoices ==
    {c \in CatProfiles :
        /\ \A f \in Range(cat_features) : c[f].t = TypeOfFeature(f)
        /\ c["major"].v \in {1, 2, UnseenCell("major").v}
        /\ c["club_participation"].v \in {0, 1}}

\* Rows that carry all eight keys.
CompleteRows ==
    {[k \in Keys |-> IF k \in NumSet THEN n[k] ELSE c[k]] :
        n \in NumericProfiles, c \in CatChoices}

Restrict(r, D) == [k \in D |-> r[k]]

\* Rows that omit a set of keys, with and without an ill-typed numeric field.
MissingRows ==
    {Restrict(r, Keys \ S) :
        S \in SUBSET Keys,
        r \in {BaseRow,
               [BaseRow EXCEPT !["exam_score"] = Cell("str", 0)],
               [BaseRow EXCEPT !["attendance"] = Cell("NoneType", 0)]}}

\* Rows that carry a key beyond the eight.
ExtraRows ==
    {[k \in Keys \cup {"student_id"} |-> IF k \in Keys THEN BaseRow[k] ELSE c] :
        c \in {Cell("int", 7), Cell("str", 7)}}

\* What a caller may pass as new_student_data: a dict, or something else.
Dict(items) == [isdict |-> TRUE, items |-> items]
NotADict == [isdict |-> FALSE, items |-> <<>>]
SampleArguments ==
    {Dict(r) : r \in CompleteRows \cup MissingRows \cup ExtraRows} \cup {NotADict}

-----------------------------------------------------------------------------
(* Storage *)

PreprocessorFile == "feature_preprocessor.pkl"   \* src/src/predict.py:26
ModelFile == "linear_regression.pkl"             \* src/src/predict.py:25
FileNames == {PreprocessorFile, ModelFile, "decision_tree.pkl", "random_forest.pkl"}

NoObj == [kind |-> "none"]
Absent == [state |-> "absent", obj |-> NoObj]
\* A file that exists and that joblib.load cannot deserialize.
Corrupt == [state |-> "corrupt", obj |-> NoObj]
Pickle(obj) == [state |-> "pickle", obj |-> obj]

\* os.path.exists(<models_dir>/<name>)
Exists(name) == models_dir_exists /\ files[name].state # "absent"

SampleTransformers == {FitTransformer(TrainA), FitTransformer(TrainB)}

SamplePredictors ==
    {Regression(OutputDim(FitTransformer(TrainA)), c) : c \in SampleCoefs}
    \cup {Regression(OutputDim(FitTransformer(TrainB)), 200)}

\* Contents of the models directory: each of the two artifacts absent, corrupt
\* or a fitted object; the two other models are there when the linear one is.
SampleFiles ==
    {[n \in FileNames |->
        CASE n = PreprocessorFile -> t
          [] n = ModelFile -> m
          [] OTHER -> IF m.state = "absent" THEN Absent ELSE Pickle([kind |-> "Tree"])] :
        t \in {Absent, Corrupt} \cup {Pickle(a) : a \in SampleTransformers},
        m \in {Absent, Corrupt} \cup {Pickle(a) : a \in SamplePredictors}}

NoFiles == [n \in FileNames |-> Absent]

-----------------------------------------------------------------------------
(* predict_gpa, src/src/predict.py:8-70 *)

NoOutcome ==
    [kind |-> "none", exc |-> "", names |-> <<>>, train_first |-> FALSE,
     cause |-> "", value |-> 0]
Raise(exc, names, train_first, cause) ==
    [kind |-> "raise", exc |-> exc, names |-> names, train_first |-> train_first,
     cause |-> cause, value |-> 0]
Return(v) ==
    [kind |-> "return", exc |-> "", names |-> <<>>, train_first |-> FALSE,
     cause |-> "", value |-> v]

NoFrame == <<>>

\* Lower and upper limit of a returned grade point, in thousandths
\* (src/src/predict.py:67).
GpaLo == 1000
GpaHi == 4000

\* Lines 18-21: the argument checks.
CheckArgs ==
    /\ pc = "start"
    /\ IF ~new_student_data.isdict
       THEN /\ outcome' = Raise("TypeError", <<>>, FALSE, "")
            /\ pc' = "done"
       ELSE IF ~project_root_isdir
       THEN /\ outcome' = Raise("NotADirectoryError", <<"project_root">>, FALSE, "")
            /\ pc' = "done"
       ELSE /\ pc' = "exists"
            /\ UNCHANGED outcome
    /\ UNCHANGED <<new_student_data, model, preprocessor, input_df,
                   input_processed, raw_pred>>
    /\ UNCHANGED <<storageVars, cleanVars, trainVars, guiVars>>


\* Mutant of CheckArtifactsExist: the row is validated first and the artifacts
\* are looked up afterwards.
ValidateFirst ==
    /\ pc = "exists"
    /\ pc' = "frame"
    /\ UNCHANGED <<new_student_data, model, preprocessor, input_df,
                   input_processed, raw_pred, outcome>>
    /\ UNCHANGED <<storageVars, cleanVars, trainVars, guiVars>>

\* Mutant of CheckArtifactsExist: only the preprocessor file is looked up.
CheckPreprocessorOnly ==
    /\ pc = "exists"
    /\ IF ~models_dir_exists \/ files[PreprocessorFile].state = "absent"
       THEN /\ outcome' = Raise("FileNotFoundError", <<PreprocessorFile>>, TRUE, "")
            /\ pc' = "done"
       ELSE /\ pc' = "load"
            /\ UNCHANGED outcome
    /\ UNCHANGED <<new_student_data, model, preprocessor, input_df,
                   input_processed, raw_pred>>
    /\ UNCHANGED <<storageVars, cleanVars, trainVars, guiVars>>

\* Lines 29-34: the three existence checks.  Only the two file messages tell
\* the caller to run main.py first.
CheckArtifactsExist ==
    /\ pc = "exists"
    /\ IF ~models_dir_exists
       THEN /\ outcome' = Raise("FileNotFoundError", <<"models">>, FALSE, "")
            /\ pc' = "done"
       ELSE IF ~Exists(PreprocessorFile)
       THEN /\ outcome' = Raise("FileNotFoundError", <<PreprocessorFile>>, TRUE, "")
            /\ pc' = "done"
       ELSE IF ~Exists(ModelFile)
       THEN /\ outcome' = Raise("FileNotFoundError", <<ModelFile>>, TRUE, "")
            /\ pc' = "done"
       ELSE /\ pc' = "load"
            /\ UNCHANGED outcome
    /\ UNCHANGED <<new_student_data, model, preprocessor, input_df,
                   input_processed, raw_pred>>
    /\ UNCHANGED <<storageVars, cleanVars, trainVars, guiVars>>

\* joblib.load(path): the stored object, or an exception named after the file.
JoblibLoad(name) ==
    IF Exists(name) /\ files[name].state = "pickle"
    THEN [ok |-> TRUE, obj |-> files[name].obj, cause |-> ""]
    ELSE [ok |-> FALSE, obj |-> NoObj, cause |-> name]


\* Mutant of LoadArtifacts: no try/except, a failed load surfaces as the
\* library's own error, and a file that does not load is taken as not found.
LoadArtifactsUnwrapped ==
    /\ pc = "load"
    /\ IF files[ModelFile].state = "pickle" /\ files[PreprocessorFile].state = "pickle"
       THEN /\ model' = files[ModelFile].obj
            /\ preprocessor' = files[PreprocessorFile].obj
            /\ pc' = "frame"
            /\ UNCHANGED outcome
       ELSE /\ outcome' = Raise("FileNotFoundError", <<>>, FALSE, "")
            /\ pc' = "done"
            /\ UNCHANGED <<model, preprocessor>>
    /\ UNCHANGED <<new_student_data, input_df, input_processed, raw_pred>>
    /\ UNCHANGED <<storageVars, cleanVars, trainVars, guiVars>>

\* Lines 37-41: load the model, then the preprocessor; any exception of either
\* load is re-raised as RuntimeError from the original one.
LoadArtifacts ==
    /\ pc = "load"
    /\ LET m == JoblibLoad(ModelFile)
           t == JoblibLoad(PreprocessorFile)
       IN IF ~m.ok
          THEN /\ outcome' = Raise("RuntimeError", <<>>, FALSE, m.cause)
               /\ pc' = "done"
               /\ UNCHANGED <<model, preprocessor>>
          ELSE IF ~t.ok
          THEN /\ outcome' = Raise("RuntimeError", <<>>, FALSE, t.cause)
               /\ pc' = "done"
               /\ UNCHANGED <<model, preprocessor>>
          ELSE /\ model' = m.obj
               /\ preprocessor' = t.obj
               /\ pc' = "frame"
               /\ UNCHANGED outcome
    /\ UNCHANGED <<new_student_data, input_df, input_processed, raw_pred>>
    /\ UNCHANGED <<storageVars, cleanVars, trainVars, guiVars>>


\* Mutant of BuildFrame: keys beyond the required ones are popped from the
\* caller's dict before the frame is built.
BuildFrameInPlace ==
    /\ pc = "frame"
    /\ new_student_data' =
          [new_student_data EXCEPT
              !.items = [k \in DOMAIN new_student_data.items \cap Keys |->
                            new_student_data.items[k]]]
    /\ input_df' = DataFrame(new_student_data'.items)
    /\ pc' = "features"
    /\ UNCHANGED <<model, preprocessor, input_processed, raw_pred, outcome>>
    /\ UNCHANGED <<storageVars, cleanVars, trainVars, guiVars>>

\* Line 44: the one-row DataFrame.
BuildFrame ==
    /\ pc = "frame"
    /\ input_df' = DataFrame(new_student_data.items)
    /\ pc' = "features"
    /\ UNCHANGED <<new_student_data, model, preprocessor, input_processed,
                   raw_pred, outcome>>
    /\ UNCHANGED <<storageVars, cleanVars, trainVars, guiVars>>


\* Mutant of missing_features: the search stops at the first missing feature.
first_missing_feature(frame) ==
    SubSeq(SelectInOrder(required_features, Keys \ DOMAIN frame), 1, 1)

\* Line 51: the required features that are no column of the frame, in the
\* order of required_features.
missing_features(frame) ==
    SelectInOrder(required_features, Keys \ DOMAIN frame)

\* Lines 47-53: the completeness check.
CheckFeatures ==
    /\ pc = "features"
    /\ IF missing_features(input_df) # <<>>
       THEN /\ outcome' = Raise("ValueError", missing_features(input_df), FALSE, "")
            /\ pc' = "done"
       ELSE /\ pc' = "numeric"
            /\ UNCHANGED outcome
    /\ UNCHANGED <<new_student_data, model, preprocessor, input_df,
                   input_processed, raw_pred>>
    /\ UNCHANGED <<storageVars, cleanVars, trainVars, guiVars>>

\* Lines 58-60: the numeric features whose column is not of a numeric dtype,
\* in loop order; the loop raises at the first.
non_numeric(frame) ==
    SelectInOrder(numeric_features, {f \in NumSet : ~is_numeric_dtype(frame[f])})

\* Lines 56-60: the type check.
CheckNumeric ==
    /\ pc = "numeric"
    /\ IF non_numeric(input_df) # <<>>
       THEN /\ outcome' = Raise("TypeError", <<Head(non_numeric(input_df))>>, FALSE, "")
            /\ pc' = "done"
       ELSE /\ pc' = "transform"
            /\ UNCHANGED outcome
    /\ UNCHANGED <<new_student_data, model, preprocessor, input_df,
                   input_processed, raw_pred>>
    /\ UNCHANGED <<storageVars, cleanVars, trainVars, guiVars>>

\* Line 63: preprocessor.transform(input_df); its exception propagates.
TransformRow ==
    /\ pc = "transform"
    /\ LET r == Transform(preprocessor, input_df)
       IN IF ~r.ok
          THEN /\ outcome' = Raise(r.exc, <<>>, FALSE, "transform")
               /\ pc' = "done"
               /\ UNCHANGED input_processed
          ELSE /\ input_processed' = r.vec
               /\ pc' = "predict"
               /\ UNCHANGED outcome
    /\ UNCHANGED <<new_student_data, model, preprocessor, input_df, raw_pred>>
    /\ UNCHANGED <<storageVars, cleanVars, trainVars, guiVars>>

\* Mutant of ClipAndRound: the third decimal is cut off instead of rounded.
ClipAndTruncate(raw) == Clip(raw, GpaLo, GpaHi) \div 10

\* Lines 67-68 applied to a raw prediction in thousandths.
ClipAndRound(raw) == Round2(Clip(raw, GpaLo, GpaHi))

\* Lines 66-70: predict, clip, round, return.
PredictAndReturn ==
    /\ pc = "predict"
    /\ LET r == Predict(model, input_processed)
       IN IF ~r.ok
          THEN /\ outcome' = Raise(r.exc, <<>>, FALSE, "predict")
               /\ UNCHANGED raw_pred
          ELSE /\ raw_pred' = r.raw
               /\ outcome' = Return(ClipAndRound(r.raw))
    /\ pc' = "done"
    /\ UNCHANGED <<new_student_data, model, preprocessor, input_df, input_processed>>
    /\ UNCHANGED <<storageVars, cleanVars, trainVars, guiVars>>

PredictNext ==
    \/ CheckArgs
    \/ CheckArtifactsExist
    \/ LoadArtifacts
    \/ BuildFrame
    \/ CheckFeatures
    \/ CheckNumeric
    \/ TransformRow
    \/ PredictAndReturn

\* No load_and_clean_data call in progress.
CleanIdle ==
    /\ csv = <<>>
    /\ cpc = "idle"
    /\ df = <<>>
    /\ clip_i = 0
    /\ printed = <<>>
    /\ coutcome = NoOutcome

\* The feature-detail text box without a line (src/gui.py:196-198).
NoLines == <<>>

\* The two result labels before the first prediction (src/gui.py:187, 190).
NoGpa == [set |-> FALSE, value |-> 0]
NoRating == "--"
NoDialog == [kind |-> "none", title |-> ""]

\* No window of gui.py.
GuiIdle ==
    /\ input_vars = <<>>
    /\ gui_pc = "closed"
    /\ gpa_var = NoGpa
    /\ rating_var = NoRating
    /\ detail_text = NoLines
    /\ messagebox = NoDialog

\* No run of main.py in progress or to come.
TrainIdle ==
    /\ data_file = <<>>
    /\ results_writable = TRUE
    /\ run = 0
    /\ tpc = "idle"
    /\ X_train = <<>>
    /\ X_test = <<>>
    /\ y_train = <<>>
    /\ main_preprocessor = NoObj
    /\ X_train_processed = <<>>
    /\ X_test_processed = <<>>
    /\ lr_model = NoObj
    /\ fit_log = <<>>
    /\ exits = <<>>

\* Storage as a predict_gpa call may find it.
StorageInit ==
    \/ /\ project_root_isdir = FALSE
       /\ models_dir_exists = FALSE
       /\ files = NoFiles
    \/ /\ project_root_isdir = TRUE
       /\ models_dir_exists = FALSE
       /\ files = NoFiles
    \/ /\ project_root_isdir = TRUE
       /\ models_dir_exists = TRUE
       /\ files \in SampleFiles

PredictInit ==
    /\ new_student_data \in SampleArguments
    /\ pc = "start"
    /\ model = NoObj
    /\ preprocessor = NoObj
    /\ input_df = NoFrame
    /\ input_processed = <<>>
    /\ raw_pred = 0
    /\ outcome = NoOutcome

Init == StorageInit /\ PredictInit /\ CleanIdle /\ TrainIdle /\ GuiIdle

Next == PredictNext

\* One predict_gpa call on any sampled argument over any sampled storage.
Spec == Init /\ [][Next]_vars

-----------------------------------------------------------------------------
(* Properties of predict_gpa, checked under Spec *)

\* The call is over.
Done == pc = "done"
Returned == Done /\ outcome.kind = "return"
Raised(exc) == Done /\ outcome.kind = "raise" /\ outcome.exc = exc

\* The argument is a dict and project_root is a directory: the call gets past
\* the argument checks of lines 18-21.
ArgsOk == new_student_data.isdict /\ project_root_isdir

\* Both artifact files exist and deserialize.
ArtifactsLoadable ==
    /\ models_dir_exists
    /\ files[PreprocessorFile].state = "pickle"
    /\ files[ModelFile].state = "pickle"

\* The required keys the caller's row omits.
Omitted == Keys \ DOMAIN new_student_data.items

\* The numeric features of the caller's row that hold a str or None.
NonNumericFields ==
    {f \in NumSet \cap DOMAIN new_student_data.items :
        new_student_data.items[f].t \in {"str", "NoneType"}}

\* C1. Range invariant: whenever predict_gpa returns a value, the value is in
\* [1.0, 4.0] (100..400 hundredths), whatever the raw prediction was.
C1_RangeInvariant ==
    Returned => /\ outcome.value >= 100
                /\ outcome.value <= 400

\* A call returned although the raw prediction was above 5.0.
C1_Witness == Returned /\ raw_pred > GpaHi + 1000

\* C2 as stated: a row that lacks a required key fails with the missing-feature
\* error whether or not the artifacts exist, and no artifact is read.
C2_ValidationBeforeLoad ==
    (Done /\ ArgsOk /\ Omitted # {}) =>
        /\ Raised("ValueError")
        /\ outcome.names = SelectInOrder(required_features, Omitted)
        /\ model = NoObj
        /\ preprocessor = NoObj

\* C2 amended: the artifacts are looked up and loaded before the row is
\* examined.  The frame is built only once both artifacts are loaded; a call
\* whose row lacks a key ends with the missing-feature error exactly when both
\* artifacts exist and load, and otherwise with the artifact error of lines
\* 29-41; a missing-feature error is raised only with both artifacts read.
C2_LoadBeforeValidation ==
    /\ input_df # NoFrame => (model # NoObj /\ preprocessor # NoObj)
    /\ pc \in {"frame", "features", "numeric", "transform", "predict"} =>
          (model # NoObj /\ preprocessor # NoObj)
    /\ (Done /\ ArgsOk /\ Omitted # {}) =>
          /\ ArtifactsLoadable =>
                (Raised("ValueError") /\ model # NoObj /\ preprocessor # NoObj)
          /\ ~ArtifactsLoadable =>
                /\ outcome.kind = "raise"
                /\ outcome.exc \in {"FileNotFoundError", "RuntimeError"}
                /\ input_df = NoFrame

\* A row without exam_score was rejected for it after both artifacts were read.
C2_Witness ==
    /\ Raised("ValueError")
    /\ Omitted = {"exam_score"}
    /\ model # NoObj
    /\ preprocessor # NoObj

\* C3. Missing-feature rejection: with both artifacts present and loadable, a
\* row that omits exactly the keys of a non-empty set S is rejected with the
\* missing-feature error, which names each key of S once and no other key, and
\* no value is returned.
C3_MissingFeatureRejection ==
    (Done /\ ArgsOk /\ ArtifactsLoadable /\ Omitted # {}) =>
        /\ Raised("ValueError")
        /\ Range(outcome.names) = Omitted
        /\ Len(outcome.names) = Cardinality(Omitted)
        /\ input_processed = <<>>

\* A row that omits three keys was rejected.
C3_Witness ==
    /\ Done
    /\ ArtifactsLoadable
    /\ Cardinality(Omitted) = 3
    /\ outcome.exc = "ValueError"

\* C4 as stated: a row with all eight keys and a non-numeric value in a numeric
\* feature is rejected with the type-mismatch error naming an offending
\* feature; with a key missing as well, the missing-feature error is raised.
C4_TypeMismatchAlways ==
    (Done /\ ArgsOk /\ NonNumericFields # {}) =>
        IF Omitted = {}
        THEN /\ Raised("TypeError")
             /\ Len(outcome.names) = 1
             /\ outcome.names[1] \in NonNumericFields
        ELSE Raised("ValueError")

\* C4 amended: the same, for calls that find both artifacts present and
\* loadable (otherwise the error of lines 29-41 is raised first).  The feature
\* named is the first non-numeric one in the order of numeric_features.
C4_TypeMismatchRejection ==
    (Done /\ ArgsOk /\ ArtifactsLoadable /\ NonNumericFields # {}) =>
        IF Omitted = {}
        THEN /\ Raised("TypeError")
             /\ outcome.names =
                   <<Head(SelectInOrder(numeric_features, NonNumericFields))>>
             /\ input_processed = <<>>
        ELSE /\ Raised("ValueError")
             /\ Range(outcome.names) = Omitted

\* A complete row with two non-numeric fields was rejected for the first.
C4_Witness ==
    /\ Raised("TypeError")
    /\ Omitted = {}
    /\ Cardinality(NonNumericFields) = 2
    /\ outcome.names = <<"lib_borrow">>

\* C5 as stated: whenever an artifact is absent, the models directory missing
\* included, the call fails with the artifact-not-found error and the message
\* tells the caller to train the model first.
C5_NotFoundSaysTrainFirst ==
    (Done /\ ArgsOk /\ (~Exists(PreprocessorFile) \/ ~Exists(ModelFile))) =>
        /\ Raised("FileNotFoundError")
        /\ outcome.train_first

\* C5 amended: for a dict argument and an existing project root, whenever an
\* artifact is absent the call fails with the artifact-not-found error and
\* returns nothing; the message tells the caller to train first when the models
\* directory exists, and only names the directory when the directory is missing.
C5_ArtifactNotFound ==
    (Done /\ ArgsOk /\ (~Exists(PreprocessorFile) \/ ~Exists(ModelFile))) =>
        /\ Raised("FileNotFoundError")
        /\ outcome.train_first = models_dir_exists
        /\ ~models_dir_exists => outcome.names = <<"models">>
        /\ models_dir_exists =>
              outcome.names = <<IF Exists(PreprocessorFile)
                                THEN ModelFile ELSE PreprocessorFile>>
        /\ input_df = NoFrame

\* The preprocessor is there, the model is not, and the caller was told to train.
C5_Witness ==
    /\ Raised("FileNotFoundError")
    /\ Exists(PreprocessorFile)
    /\ ~Exists(ModelFile)
    /\ outcome.train_first

\* Both artifact files exist and one of them does not deserialize.
CorruptArtifact ==
    /\ Exists(PreprocessorFile)
    /\ Exists(ModelFile)
    /\ \/ files[PreprocessorFile].state = "corrupt"
       \/ files[ModelFile].state = "corrupt"

\* C6. Artifact-load failure: when both files exist and one fails to
\* deserialize, the call never gets past the load, and it ends with the load
\* error (RuntimeError) carrying its cause, not with artifact-not-found; the
\* row is not transformed and nothing is returned.
C6_ArtifactLoadFailure ==
    (ArgsOk /\ CorruptArtifact) =>
        /\ pc \in {"start", "exists", "load", "done"}
        /\ Done =>
              /\ Raised("RuntimeError")
              /\ outcome.cause \in {PreprocessorFile, ModelFile}
              /\ files[outcome.cause].state = "corrupt"
              /\ input_df = NoFrame
              /\ input_processed = <<>>

\* The model loaded, the preprocessor did not, and the load error names it.
C6_Witness ==
    /\ Raised("RuntimeError")
    /\ files[ModelFile].state = "pickle"
    /\ outcome.cause = PreprocessorFile

\* The call got as far as preprocessor.transform.
ReachedTransform ==
    /\ Done
    /\ input_df # NoFrame
    /\ missing_features(input_df) = <<>>
    /\ non_numeric(input_df) = <<>>

\* The indicator columns of the transformed row (those after the numeric block).
Indicators(vec) == SubSeq(vec, Len(numeric_features) + 1, Len(vec))

\* C7 as stated: a row with a categorical value that was not seen during Fit is
\* transformed without an error, into all-zero indicators.
C7_UnseenCategoryAllZero ==
    (ReachedTransform /\ UnknownCats(preprocessor, input_df) # {}) =>
        /\ outcome.cause # "transform"
        /\ input_processed # <<>>
        /\ \A i \in DOMAIN Indicators(input_processed) :
               Indicators(input_processed)[i] = 0

\* The loaded pair fits together: the model was fitted on as many columns as
\* the preprocessor emits.
PairFits == Len(model.coef) = OutputDim(preprocessor)

\* C8 as stated: a row with all eight keys and numeric-typed numeric features,
\* in range or not, is neither rejected nor clipped: its values reach Transform
\* unmodified and a prediction is returned.
C8_NoRangeEnforcement ==
    (ReachedTransform /\ PairFits) =>
        /\ Returned
        /\ \A f \in Keys : input_df[f].v = new_student_data.items[f].v

\* C9. No side effects: no step of predict_gpa, whether the call goes on,
\* returns or raises, changes the models directory, any stored file or the
\* caller's row.
C9_NoSideEffects ==
    [][PredictNext =>
         /\ UNCHANGED storageVars
         /\ new_student_data' = new_student_data]_vars

\* A call over a complete pair of artifacts returned a value.
C9_Witness == Returned /\ ArtifactsLoadable /\ outcome.value > 100

\* Number of categories the fitted encoder of a categorical feature holds.
VocabularySize(art, f) == Len(art.cat[f].cats)

\* Number of columns before the indicator block of a categorical feature.
IndicatorOffset(art, f) ==
    CASE f = "major" -> 5
      [] f = "gender" -> 5 + (VocabularySize(art, "major") - 1)
      [] f = "club_participation" ->
            5 + (VocabularySize(art, "major") - 1) + (VocabularySize(art, "gender") - 1)

\* The layout C15 describes, for the vector vec an artifact made of a row.
LayoutOf(art, row, vec) ==
    /\ Len(vec) = 5 + (VocabularySize(art, "major") - 1)
                    + (VocabularySize(art, "gender") - 1)
                    + (VocabularySize(art, "club_participation") - 1)
    /\ vec[1] = ScalerTransform(art.num["attendance"], row["attendance"].v)
    /\ vec[2] = ScalerTransform(art.num["homework_completion"], row["homework_completion"].v)
    /\ vec[3] = ScalerTransform(art.num["lib_borrow"], row["lib_borrow"].v)
    /\ vec[4] = ScalerTransform(art.num["class_interaction"], row["class_interaction"].v)
    /\ vec[5] = ScalerTransform(art.num["exam_score"], row["exam_score"].v)
    /\ \A f \in Range(cat_features) :
          \A j \in 1..(VocabularySize(art, f) - 1) :
             vec[IndicatorOffset(art, f) + j] =
                IF art.cat[f].cats[j + 1] = row[f].v THEN 1000 ELSE 0

Clamped == Clip(raw_pred, GpaLo, GpaHi)

\* C17. Clamp-then-round: the value predict_gpa returns is the raw output of
\* the Predictor clamped to [1.0, 4.0] and then rounded to two decimals: it is
\* a whole number of hundredths, the hundredth nearest to the clamped value,
\* and it lies within [1.0, 4.0] after the rounding.
C17_ClampThenRound ==
    Returned =>
        /\ outcome.value = Round2(Clamped)
        /\ outcome.value \in Int
        /\ 10 * outcome.value - Clamped <= 5
        /\ Clamped - 10 * outcome.value <= 5
        /\ 10 * outcome.value >= GpaLo
        /\ 10 * outcome.value <= GpaHi

\* A raw prediction strictly inside the range was rounded up to the next
\* hundredth.
C17_Witness ==
    /\ Returned
    /\ raw_pred > GpaLo
    /\ raw_pred < GpaHi
    /\ raw_pred % 10 > 5
    /\ outcome.value = raw_pred \div 10 + 1

-----------------------------------------------------------------------------
(* load_and_clean_data, src/main.py:49-105 *)

\* Largest number of data rows of a sampled CSV file.
MaxRows == 2

\* A cell of a numeric column: a number in the column's unit, or NaN.
Num(v) == [nan |-> FALSE, v |-> v]
NaN == [nan |-> TRUE, v |-> 0]

\* src/main.py:67-70
required_cols ==
    <<"gpa", "major", "gender", "attendance", "homework_completion",
      "lib_borrow", "club_participation", "class_interaction", "exam_score">>

ClipCols == Range(clip_order)

\* Sampled rows of the file.  Every sampled number is even (the limits of
\* clip_rules are, and out-of-range values lie 2 * Spread beyond them), so the
\* mean of two of them, which the median of a column may be, is a whole number.
CsvLevelRow(l) ==
    [c \in Range(required_cols) |->
        IF c \notin ClipCols THEN Num(1)
        ELSE CASE l = "min" -> Num(clip_rules[c][1])
               [] l = "max" -> Num(clip_rules[c][2])
               [] l = "below" -> Num(clip_rules[c][1] - 2 * Spread)
               [] l = "above" -> Num(clip_rules[c][2] + 2 * Spread)
               [] l = "nan" -> NaN]

CsvRows ==
    {CsvLevelRow(l) : l \in {"min", "max", "below", "above"}}
    \cup {[CsvLevelRow("min") EXCEPT ![c] = CsvLevelRow(l)[c]] :
             c \in ClipCols, l \in {"below", "above", "nan"}}

\* The parsed content of a file with the given rows: column -> Series.
Frame(rows, cols) == [c \in cols |-> [i \in 1..Len(rows) |-> rows[i][c]]]

\* data/simulated_data.csv: absent, or a header and up to MaxRows rows; the
\* header may lack one of the required columns.
SampleCsv ==
    {[exists |-> FALSE, data |-> <<>>]}
    \cup {[exists |-> TRUE, data |-> Frame(rows, Range(required_cols) \ drop)] :
             rows \in UNION {[1..n -> CsvRows] : n \in 0..MaxRows},
             drop \in {{}, {"gpa"}, {"major", "exam_score"}}}

RECURSIVE Insert(_, _)
Insert(x, s) ==
    IF s = <<>> THEN <<x>>
    ELSE IF x <= Head(s) THEN <<x>> \o s
    ELSE <<Head(s)>> \o Insert(x, Tail(s))

RECURSIVE Sort(_)
Sort(s) == IF s = <<>> THEN <<>> ELSE Insert(Head(s), Sort(Tail(s)))

\* The numbers of a Series, NaN skipped.
RECURSIVE Numbers(_)
Numbers(series) ==
    IF series = <<>> THEN <<>>
    ELSE IF Head(series).nan THEN Numbers(Tail(series))
    ELSE <<Head(series).v>> \o Numbers(Tail(series))

\* Series.median(): the median of the numbers, NaN when there is none.
Median(series) ==
    LET s == Sort(Numbers(series))
        n == Len(s)
    IN IF n = 0 THEN NaN
       ELSE IF n % 2 = 1 THEN Num(s[(n + 1) \div 2])
       ELSE Num((s[n \div 2] + s[n \div 2 + 1]) \div 2)

\* Series.fillna(m): NaN cells take m; fillna with NaN changes nothing.
FillNa(series, m) == [i \in DOMAIN series |-> IF series[i].nan THEN m ELSE series[i]]

\* df.isnull().sum().sum() > 0, line 79
HasNull(frame) == \E c \in DOMAIN frame : \E i \in DOMAIN frame[c] : frame[c][i].nan

\* Line 93: the comparisons are False on NaN.
OutOfRange(x, lo, hi) == ~x.nan /\ (x.v < lo \/ x.v > hi)

\* Mutant of error_count: only values below the minimum are counted.
below_count(series, lo, hi) ==
    Cardinality({i \in DOMAIN series : ~series[i].nan /\ series[i].v < lo})

\* Line 93: error_count
error_count(series, lo, hi) ==
    Cardinality({i \in DOMAIN series : OutOfRange(series[i], lo, hi)})

\* Line 95: Series.clip(min_val, max_val); NaN stays NaN.
SeriesClip(series, lo, hi) ==
    [i \in DOMAIN series |->
        IF series[i].nan THEN NaN
        ELSE Num(IF series[i].v < lo THEN lo
                 ELSE IF series[i].v > hi THEN hi ELSE series[i].v)]

\* Lines 51-54: the data file must exist.
CheckDataFile ==
    /\ cpc = "start"
    /\ IF ~csv.exists
       THEN /\ coutcome' = Raise("FileNotFoundError", <<"simulated_data.csv">>, FALSE, "")
            /\ cpc' = "done"
       ELSE /\ cpc' = "read"
            /\ UNCHANGED coutcome
    /\ UNCHANGED <<csv, df, clip_i, printed>>
    /\ UNCHANGED <<storageVars, predictVars, trainVars, guiVars>>

\* Lines 57-60: pd.read_csv
ReadCsv ==
    /\ cpc = "read"
    /\ df' = csv.data
    /\ cpc' = "columns"
    /\ UNCHANGED <<csv, clip_i, printed, coutcome>>
    /\ UNCHANGED <<storageVars, predictVars, trainVars, guiVars>>

\* Line 71
missing_cols(frame) == SelectInOrder(required_cols, Range(required_cols) \ DOMAIN frame)

\* Lines 67-73: the nine core columns must be there.
CheckColumns ==
    /\ cpc = "columns"
    /\ IF missing_cols(df) # <<>>
       THEN /\ coutcome' = Raise("ValueError", missing_cols(df), FALSE, "")
            /\ cpc' = "done"
       ELSE /\ cpc' = "fillna"
            /\ UNCHANGED coutcome
    /\ UNCHANGED <<csv, df, clip_i, printed>>
    /\ UNCHANGED <<storageVars, predictVars, trainVars, guiVars>>

\* Lines 77-84: when a value is missing, every numeric column is filled with
\* its median.  (major is the one object column; it carries no missing value
\* in the sampled files, so its fill with the mode changes nothing.)
FillMissing ==
    /\ cpc = "fillna"
    /\ df' = IF HasNull(df)
             THEN [c \in DOMAIN df |-> FillNa(df[c], Median(df[c]))]
             ELSE df
    /\ clip_i' = 1
    /\ cpc' = "clip"
    /\ UNCHANGED <<csv, printed, coutcome>>
    /\ UNCHANGED <<storageVars, predictVars, trainVars, guiVars>>

\* Lines 92-96: one pass of the clip loop.
ClipColumn ==
    /\ cpc = "clip"
    /\ clip_i <= Len(clip_order)
    /\ LET col == clip_order[clip_i]
           min_val == clip_rules[col][1]
           max_val == clip_rules[col][2]
           n == error_count(df[col], min_val, max_val)
       IN IF n > 0
          THEN /\ df' = [df EXCEPT ![col] = SeriesClip(df[col], min_val, max_val)]
               /\ printed' = Append(printed, [col |-> col, count |-> n])
          ELSE UNCHANGED <<df, printed>>
    /\ clip_i' = clip_i + 1
    /\ UNCHANGED <<csv, cpc, coutcome>>
    /\ UNCHANGED <<storageVars, predictVars, trainVars, guiVars>>

\* Lines 97-105: the loop is over; gender and club_participation are cast to
\* int (they hold whole numbers in the sampled files) and df is returned.
CastAndReturn ==
    /\ cpc = "clip"
    /\ clip_i > Len(clip_order)
    /\ coutcome' = Return(Len(df["gpa"]))
    /\ cpc' = "done"
    /\ UNCHANGED <<csv, df, clip_i, printed>>
    /\ UNCHANGED <<storageVars, predictVars, trainVars, guiVars>>

CleanNext ==
    \/ CheckDataFile
    \/ ReadCsv
    \/ CheckColumns
    \/ FillMissing
    \/ ClipColumn
    \/ CastAndReturn

\* No predict_gpa call in progress, nothing trained yet.
PredictIdle ==
    /\ project_root_isdir = TRUE
    /\ models_dir_exists = TRUE
    /\ files = NoFiles
    /\ new_student_data = NotADict
    /\ pc = "idle"
    /\ model = NoObj
    /\ preprocessor = NoObj
    /\ input_df = NoFrame
    /\ input_processed = <<>>
    /\ raw_pred = 0
    /\ outcome = NoOutcome

CleanInit ==
    /\ csv \in SampleCsv
    /\ cpc = "start"
    /\ df = <<>>
    /\ clip_i = 0
    /\ printed = <<>>
    /\ coutcome = NoOutcome
    /\ PredictIdle
    /\ TrainIdle
    /\ GuiIdle

\* One load_and_clean_data call on any sampled data file.
SpecClean == CleanInit /\ [][CleanNext]_vars

-----------------------------------------------------------------------------
(* Properties of load_and_clean_data, checked under SpecClean *)

CleanReturned == cpc = "done" /\ coutcome.kind = "return"

InRange(x, col) == ~x.nan /\ x.v >= clip_rules[col][1] /\ x.v <= clip_rules[col][2]

\* The file has every required column.
CsvComplete == csv.exists /\ missing_cols(csv.data) = <<>>

\* The column as the clip loop found it: the file's column after the fill of
\* lines 79-84.
Filled(col) ==
    IF HasNull(csv.data) THEN FillNa(csv.data[col], Median(csv.data[col]))
    ELSE csv.data[col]

\* The count printed for a column, 0 when no line was printed for it.
PrintedCount(col) ==
    IF \E i \in DOMAIN printed : printed[i].col = col
    THEN (CHOOSE r \in Range(printed) : r.col = col).count
    ELSE 0

\* Out-of-range values never stop the call and never drop a row; values in
\* range stay as they are; the corrected values of each column are counted.
C10_CommonPart ==
    /\ (cpc = "done" /\ CsvComplete) => CleanReturned
    /\ CleanReturned =>
          \A col \in ClipCols :
             /\ Len(df[col]) = Len(csv.data[col])
             /\ \A i \in DOMAIN df[col] :
                   InRange(csv.data[col][i], col) => df[col][i] = csv.data[col][i]
             /\ PrintedCount(col) =
                   Cardinality({i \in DOMAIN df[col] :
                                   ~Filled(col)[i].nan /\ ~InRange(Filled(col)[i], col)})
             /\ Cardinality({i \in DOMAIN printed : printed[i].col = col}) <= 1

\* C10 as stated: after load_and_clean_data returns, every value of the six
\* columns lies within its declared range (and the rest of the claim).
C10_EveryValueInRange ==
    /\ C10_CommonPart
    /\ CleanReturned =>
          \A col \in ClipCols : \A i \in DOMAIN df[col] : InRange(df[col][i], col)

\* C10 amended: after load_and_clean_data returns, every value of the six
\* columns that is not missing lies within its declared range, and a value is
\* still missing only in a column that has no value at all in the file (such a
\* column is neither filled nor clipped); the rest of the claim as stated.
C10_TrainingPathClipping ==
    /\ C10_CommonPart
    /\ CleanReturned =>
          \A col \in ClipCols : \A i \in DOMAIN df[col] :
             IF df[col][i].nan
             THEN \A j \in DOMAIN csv.data[col] : csv.data[col][j].nan
             ELSE InRange(df[col][i], col)

\* A file with a value above and a value below the range of attendance was
\* cleaned: both rows are kept, both values corrected and counted.
C10_Witness ==
    /\ CleanReturned
    /\ Len(df["attendance"]) = 2
    /\ PrintedCount("attendance") = 2
    /\ csv.data["attendance"][1].v < clip_rules["attendance"][1]
    /\ csv.data["attendance"][2].v > clip_rules["attendance"][2]
    /\ df["attendance"][1].v = clip_rules["attendance"][1]
    /\ df["attendance"][2].v = clip_rules["attendance"][2]

-----------------------------------------------------------------------------
(* main.py: one run after the other, src/main.py:215-260 *)

\* Largest number of runs of main.py in a behaviour.
MaxRuns == 2

\* An object as the run that built it left it: the fitted object, marked with
\* the number of that run.
Tagged(obj, r) == [k \in DOMAIN obj \cup {"run"} |-> IF k = "run" THEN r ELSE obj[k]]

\* The data file as load_data (src/main.py:107-119) splits it, after cleaning;
\* the split is the same on every run over the same file (random_state=42).
Split(train, test, labels) ==
    [exists |-> TRUE, X_train |-> train, X_test |-> test, y_train |-> labels]
NoDataFile == [exists |-> FALSE, X_train |-> <<>>, X_test |-> <<>>, y_train |-> <<>>]

\* Five training rows: enough for the 5-fold grid search of train_models.
TrainC == TrainB \o TrainA
\* Five training rows in which lib_borrow is constant.
TrainD == TrainB \o <<TrainB[2], TrainB[3]>>

\* A test row whose categories occur in every sampled training split, and one
\* of a college that occurs in none.
TestSeen == <<MkRow(1, 0, 25, 75, 5, 1, 8, 77)>>
TestUnseen == <<MkRow(9, 0, 25, 75, 5, 1, 8, 77)>>

\* Labels (gpa, hundredths) of n training rows; all missing when the gpa column
\* of the file is empty (such a column is neither filled nor clipped).
Labels(n) == [i \in 1..n |-> Num(190 + 30 * i)]
NoLabels(n) == [i \in 1..n |-> NaN]

Permuted(rows, p) == [i \in DOMAIN rows |-> rows[p[i]]]

\* The sampled data files: five-row splits (one a re-shuffle of another, one
\* with a constant column), every re-shuffle of a three-row split, a test
\* split with an unseen college, an empty gpa column, and no file at all.
Datasets ==
    {NoDataFile,
     Split(TrainC, TestSeen, Labels(5)),
     Split(TrainA \o TrainB, TestSeen, Labels(5)),
     Split(TrainD, TestSeen, Labels(5)),
     Split(TrainC, TestUnseen, Labels(5)),
     Split(TrainC, TestSeen, NoLabels(5))}
    \cup {Split(Permuted(TrainB, p), TestSeen, Labels(3)) : p \in Permutations(1..3)}

\* LinearRegression().fit(X, y), src/main.py:128-129.  The least-squares
\* solution is the library's; the model keeps the number of columns fitted on
\* and takes the mean of the labels (thousandths) as intercept.
LinearRegressionFit(X, y) ==
    [Regression(Len(X[1]), 200) EXCEPT
        !.intercept = (SumSeq([i \in DOMAIN y |-> y[i].v]) * 10) \div Len(y)]

\* preprocessor.transform(X) on a split: the rows that cannot be encoded.
Unencodable(art, X) == {i \in DOMAIN X : ~Transform(art, X[i]).ok}
TransformAll(art, X) == [i \in DOMAIN X |-> Transform(art, X[i]).vec]

\* An exception leaves main: __main__ prints it and exits with status 1
\* (src/main.py:256-260).
RunFails(step, exc) ==
    /\ exits' = Append(exits, [run |-> run, ok |-> FALSE, step |-> step, exc |-> exc])
    /\ tpc' = "idle"

\* Number of folds of the grid search, src/main.py:139.
cv == 5

\* Lines 252-254 and 216-222: a run of main.py starts, in a new process, and
\* init_directories creates the project directories that do not exist.
InitDirectories ==
    /\ tpc = "idle"
    /\ run < Len(data_file)
    /\ run' = run + 1
    /\ models_dir_exists' = TRUE
    /\ X_train' = <<>>
    /\ X_test' = <<>>
    /\ y_train' = <<>>
    /\ main_preprocessor' = NoObj
    /\ X_train_processed' = <<>>
    /\ X_test_processed' = <<>>
    /\ lr_model' = NoObj
    /\ tpc' = "load"
    /\ UNCHANGED <<project_root_isdir, files, trainEnv, fit_log, exits>>
    /\ UNCHANGED <<predictVars, cleanVars, guiVars>>

\* Line 226: load_data; load_and_clean_data raises when the file is missing.
LoadData ==
    /\ tpc = "load"
    /\ IF ~data_file[run].exists
       THEN /\ RunFails("load_data", "FileNotFoundError")
            /\ UNCHANGED <<X_train, X_test, y_train>>
       ELSE /\ X_train' = data_file[run].X_train
            /\ X_test' = data_file[run].X_test
            /\ y_train' = data_file[run].y_train
            /\ tpc' = "fit"
            /\ UNCHANGED exits
    /\ UNCHANGED <<trainEnv, run, main_preprocessor, X_train_processed,
                   X_test_processed, lr_model, fit_log>>
    /\ UNCHANGED <<storageVars, predictVars, cleanVars, guiVars>>


\* Lines 230-231: a new ColumnTransformer is built and fitted on the training
\* split, which it transforms.
FitTransform ==
    /\ tpc = "fit"
    /\ main_preprocessor' = Tagged(FitTransformer(X_train), run)
    /\ X_train_processed' = TransformAll(main_preprocessor', X_train)
    /\ fit_log' = Append(fit_log, [run |-> run, rows |-> X_train,
                                   art |-> main_preprocessor'])
    /\ tpc' = "transform"
    /\ UNCHANGED <<trainEnv, run, X_train, X_test, y_train, X_test_processed,
                   lr_model, exits>>
    /\ UNCHANGED <<storageVars, predictVars, cleanVars, guiVars>>

\* Mutant of TransformTest: the test split goes through fit_transform as well.
FitTransformTest ==
    /\ tpc = "transform"
    /\ main_preprocessor' = Tagged(FitTransformer(X_test), run)
    /\ X_test_processed' = TransformAll(main_preprocessor', X_test)
    /\ fit_log' = Append(fit_log, [run |-> run, rows |-> X_test,
                                   art |-> main_preprocessor'])
    /\ tpc' = "dump_preprocessor"
    /\ UNCHANGED <<trainEnv, run, X_train, X_test, y_train, X_train_processed,
                   lr_model, exits>>
    /\ UNCHANGED <<storageVars, predictVars, cleanVars, guiVars>>

\* Line 232: the test split is transformed by the fitted preprocessor; a
\* category that the training split lacks makes transform raise.
TransformTest ==
    /\ tpc = "transform"
    /\ IF Unencodable(main_preprocessor, X_test) # {}
       THEN /\ RunFails("preprocessor.transform", "ValueError")
            /\ UNCHANGED X_test_processed
       ELSE /\ X_test_processed' = TransformAll(main_preprocessor, X_test)
            /\ tpc' = "dump_preprocessor"
            /\ UNCHANGED exits
    /\ UNCHANGED <<trainEnv, run, X_train, X_test, y_train, main_preprocessor,
                   X_train_processed, lr_model, fit_log>>
    /\ UNCHANGED <<storageVars, predictVars, cleanVars, guiVars>>

\* Lines 234-235: joblib.dump(preprocessor, <models>/feature_preprocessor.pkl).
DumpPreprocessor ==
    /\ tpc = "dump_preprocessor"
    /\ files' = [files EXCEPT ![PreprocessorFile] = Pickle(main_preprocessor)]
    /\ tpc' = "linear"
    /\ UNCHANGED <<project_root_isdir, models_dir_exists>>
    /\ UNCHANGED <<trainEnv, run, trainLocals, fit_log, exits>>
    /\ UNCHANGED <<predictVars, cleanVars, guiVars>>

\* Lines 128-131: the linear regression is fitted on the transformed training
\* split (fit rejects a NaN label) and dumped.
TrainLinear ==
    /\ tpc = "linear"
    /\ IF \E i \in DOMAIN y_train : y_train[i].nan
       THEN /\ RunFails("LinearRegression.fit", "ValueError")
            /\ UNCHANGED <<lr_model, files>>
       ELSE /\ lr_model' = Tagged(LinearRegressionFit(X_train_processed, y_train), run)
            /\ files' = [files EXCEPT ![ModelFile] = Pickle(lr_model')]
            /\ tpc' = "tree"
            /\ UNCHANGED exits
    /\ UNCHANGED <<project_root_isdir, models_dir_exists>>
    /\ UNCHANGED <<trainEnv, run, X_train, X_test, y_train, main_preprocessor,
                   X_train_processed, X_test_processed, fit_log>>
    /\ UNCHANGED <<predictVars, cleanVars, guiVars>>

\* Lines 137-144: the grid search over the decision tree (5 folds need 5 rows)
\* and the dump of the best tree.
TrainTree ==
    /\ tpc = "tree"
    /\ IF Len(X_train_processed) < cv
       THEN /\ RunFails("GridSearchCV.fit", "ValueError")
            /\ UNCHANGED files
       ELSE /\ files' = [files EXCEPT !["decision_tree.pkl"] =
                            Pickle(Tagged([kind |-> "DecisionTreeRegressor"], run))]
            /\ tpc' = "forest"
            /\ UNCHANGED exits
    /\ UNCHANGED <<project_root_isdir, models_dir_exists>>
    /\ UNCHANGED <<trainEnv, run, trainLocals, fit_log>>
    /\ UNCHANGED <<predictVars, cleanVars, guiVars>>

\* Lines 150-153: the random forest is fitted and dumped.
TrainForest ==
    /\ tpc = "forest"
    /\ files' = [files EXCEPT !["random_forest.pkl"] =
                    Pickle(Tagged([kind |-> "RandomForestRegressor"], run))]
    /\ tpc' = "evaluate"
    /\ UNCHANGED <<project_root_isdir, models_dir_exists>>
    /\ UNCHANGED <<trainEnv, run, trainLocals, fit_log, exits>>
    /\ UNCHANGED <<predictVars, cleanVars, guiVars>>

\* Line 243: evaluate_models computes the metrics and writes three charts
\* under results/ (plt.savefig raises when it cannot write).
EvaluateModels ==
    /\ tpc = "evaluate"
    /\ IF ~results_writable
       THEN RunFails("evaluate_models", "OSError")
       ELSE /\ tpc' = "example"
            /\ UNCHANGED exits
    /\ UNCHANGED <<trainEnv, run, trainLocals, fit_log>>
    /\ UNCHANGED <<storageVars, predictVars, cleanVars, guiVars>>

\* Lines 245-250: run_prediction_example catches whatever its two predictions
\* raise; main returns.
RunPredictionExample ==
    /\ tpc = "example"
    /\ exits' = Append(exits, [run |-> run, ok |-> TRUE, step |-> "", exc |-> ""])
    /\ tpc' = "idle"
    /\ UNCHANGED <<trainEnv, run, trainLocals, fit_log>>
    /\ UNCHANGED <<storageVars, predictVars, cleanVars, guiVars>>

TrainNext ==
    \/ InitDirectories
    \/ LoadData
    \/ FitTransform
    \/ TransformTest
    \/ DumpPreprocessor
    \/ TrainLinear
    \/ TrainTree
    \/ TrainForest
    \/ EvaluateModels
    \/ RunPredictionExample

\* No predict_gpa call in progress.
NoCall ==
    /\ new_student_data = NotADict
    /\ pc = "idle"
    /\ model = NoObj
    /\ preprocessor = NoObj
    /\ input_df = NoFrame
    /\ input_processed = <<>>
    /\ raw_pred = 0
    /\ outcome = NoOutcome

\* A project in which nothing has been trained yet.
TrainInit ==
    /\ project_root_isdir = TRUE
    /\ models_dir_exists \in BOOLEAN
    /\ files = NoFiles
    /\ data_file \in [1..MaxRuns -> Datasets]
    /\ results_writable \in BOOLEAN
    /\ run = 0
    /\ tpc = "idle"
    /\ X_train = <<>>
    /\ X_test = <<>>
    /\ y_train = <<>>
    /\ main_preprocessor = NoObj
    /\ X_train_processed = <<>>
    /\ X_test_processed = <<>>
    /\ lr_model = NoObj
    /\ fit_log = <<>>
    /\ exits = <<>>
    /\ NoCall
    /\ CleanIdle
    /\ GuiIdle

\* Up to MaxRuns runs of main.py, one after the other, each over the data file
\* it finds.
SpecTrain == TrainInit /\ [][TrainNext]_vars

-----------------------------------------------------------------------------
(* Properties of the training runs, checked under SpecTrain *)

\* The run that wrote the file as it is now; 0 when there is no such file.
WrittenBy(n) == IF files[n].state = "pickle" THEN files[n].obj.run ELSE 0

RunFailed(r) == r \in DOMAIN exits /\ ~exits[r].ok

\* C11 as stated: a run that failed, at whatever step, has written no artifact
\* to storage, and a run never leaves a Transformer artifact it wrote without
\* the Predictor fitted in the same run.
C11_NoPartialFailure ==
    /\ \A n \in FileNames : ~RunFailed(WrittenBy(n))
    /\ (tpc = "idle" /\ WrittenBy(PreprocessorFile) # 0) =>
          WrittenBy(ModelFile) = WrittenBy(PreprocessorFile)

\* C12 as stated: once a run has persisted the Transformer or the Predictor
\* artifact, no later step overwrites or modifies the stored artifact.
C12_NeverUpdatedInPlace ==
    [][\A n \in {PreprocessorFile, ModelFile} :
          files[n].state = "pickle" => files'[n] = files[n]]_vars

\* Two splits hold the same rows, each as often, in whatever order.
SameRows(a, b) ==
    /\ Len(a) = Len(b)
    /\ \A r \in Range(a) \cup Range(b) :
          Cardinality({i \in DOMAIN a : a[i] = r}) =
             Cardinality({i \in DOMAIN b : b[i] = r})

\* Rows to compare two artifacts on: every sampled training and test row.
ProbeRows ==
    Range(TrainC) \cup Range(TestSeen) \cup Range(TestUnseen) \cup {BaseRow}

\* C14. Vocabulary order does not depend on row order: two fits on the same
\* training rows in different orders yield, for each categorical feature, the
\* same vocabulary in the same order; the category without an indicator column
\* is the first of the vocabulary; and every row gets the same indicator
\* columns from both artifacts.
C14_VocabularyOrder ==
    \A i \in DOMAIN fit_log : \A j \in DOMAIN fit_log :
       SameRows(fit_log[i].rows, fit_log[j].rows) =>
          /\ \A f \in Range(cat_features) :
                LET enc == fit_log[i].art.cat[f]
                IN /\ enc.cats = fit_log[j].art.cat[f].cats
                   /\ \A k \in DOMAIN enc.cats :
                         \A c \in DOMAIN EncoderTransform(enc, Cell(enc.t, enc.cats[k])) :
                            EncoderTransform(enc, Cell(enc.t, enc.cats[k]))[c] =
                               IF c = k - 1 THEN 1000 ELSE 0
          /\ \A row \in ProbeRows :
                LET ti == Transform(fit_log[i].art, row)
                    tj == Transform(fit_log[j].art, row)
                IN /\ ti.ok = tj.ok
                   /\ Indicators(ti.vec) = Indicators(tj.vec)

\* Two runs fitted on the same three rows, the first starting with the third
\* college and the second with the first.
C14_Witness ==
    /\ Len(fit_log) = 2
    /\ SameRows(fit_log[1].rows, fit_log[2].rows)
    /\ fit_log[1].rows[1]["major"].v = 3
    /\ fit_log[2].rows[1]["major"].v = 1
    /\ fit_log[2].art.cat["major"].cats = <<1, 2, 3>>

\* The numeric column f has one and the same value in all the rows.
ConstantColumn(rows, f) == \A i \in DOMAIN rows : rows[i][f].v = rows[1][f].v

\* C16. Constant-column safety: when a numeric column has zero variance in the
\* rows given to fit, the fitted scale is not zero (it is 1.0), so no row is
\* divided by zero; the column transforms to 0 on every row that holds the
\* constant and to the plain difference from the constant on any other row.
\* The scale of every fitted column is positive.
C16_ConstantColumnSafety ==
    \A e \in DOMAIN fit_log : \A k \in DOMAIN numeric_features :
       LET f == numeric_features[k]
           st == fit_log[e].art.num[f]
           rows == fit_log[e].rows
       IN /\ st.scale > 0
          /\ ConstantColumn(rows, f) =>
                /\ \A row \in ProbeRows \cup Range(rows) :
                      /\ row[f].v = rows[1][f].v => ScalerTransform(st, row[f].v) = 0
                      /\ ScalerTransform(st, row[f].v) = (row[f].v - rows[1][f].v) * 1000
                /\ (fit_log[e].run = run /\ X_train_processed # <<>>) =>
                      \A i \in DOMAIN X_train_processed : X_train_processed[i][k] = 0
                /\ (fit_log[e].run = run /\ X_test_processed # <<>>) =>
                      \A i \in DOMAIN X_test_processed :
                         X_test_processed[i][k] = (X_test[i][f].v - rows[1][f].v) * 1000

\* A run fitted on five rows that all have lib_borrow = 4 and transformed
\* them, and a test row with lib_borrow = 5.
C16_Witness ==
    /\ Len(X_train) = 5
    /\ ConstantColumn(X_train, "lib_borrow")
    /\ main_preprocessor # NoObj
    /\ main_preprocessor.num["lib_borrow"].scale = 100
    /\ X_train_processed[1][3] = 0
    /\ X_test_processed # <<>>
    /\ X_test_processed[1][3] = 1000

-----------------------------------------------------------------------------
(* Runs of main.py and predict_gpa calls over the same project directory *)

\* The rows the interleaved calls predict for: the example student of
\* src/main.py:183-186 and a sampled test row.
PipelineArguments == {Dict(BaseRow), Dict(TestSeen[1])}

\* A caller (gui.py:288, main.py:204-205) invokes predict_gpa; the locals of
\* an earlier call are gone.
CallPredict ==
    /\ pc \in {"idle", "done"}
    /\ new_student_data' \in PipelineArguments
    /\ pc' = "start"
    /\ model' = NoObj
    /\ preprocessor' = NoObj
    /\ input_df' = NoFrame
    /\ input_processed' = <<>>
    /\ raw_pred' = 0
    /\ outcome' = NoOutcome
    /\ UNCHANGED <<storageVars, cleanVars, trainVars, guiVars>>

\* The data files of the interleaved runs: two five-row splits with the same
\* colleges and different values, a three-row split, and an empty gpa column.
PipelineDatasets ==
    {Split(TrainC, TestSeen, Labels(5)),
     Split(TrainD, TestSeen, Labels(5)),
     Split(TrainB, TestSeen, Labels(3)),
     Split(TrainC, TestSeen, NoLabels(5))}

PipelineInit ==
    /\ project_root_isdir = TRUE
    /\ models_dir_exists = FALSE
    /\ files = NoFiles
    /\ data_file \in [1..MaxRuns -> PipelineDatasets]
    /\ results_writable \in BOOLEAN
    /\ run = 0
    /\ tpc = "idle"
    /\ X_train = <<>>
    /\ X_test = <<>>
    /\ y_train = <<>>
    /\ main_preprocessor = NoObj
    /\ X_train_processed = <<>>
    /\ X_test_processed = <<>>
    /\ lr_model = NoObj
    /\ fit_log = <<>>
    /\ exits = <<>>
    /\ NoCall
    /\ CleanIdle
    /\ GuiIdle

PipelineNext ==
    \/ TrainNext
    \/ CallPredict
    \/ PredictNext

\* Runs of main.py in one process and predict_gpa calls in another (the GUI),
\* their steps interleaved in any order.
SpecPipeline == PipelineInit /\ [][PipelineNext]_vars

-----------------------------------------------------------------------------
(* Properties of the pipeline, checked under SpecPipeline *)

\* The fit calls of run r so far.
FitsOf(r) == {e \in DOMAIN fit_log : fit_log[e].run = r}

\* C18 as stated: every predict_gpa call that returns a value used a
\* Transformer artifact and a Predictor artifact produced by the same run.
C18_ArtifactPairConsistency ==
    Returned => model.run = preprocessor.run

\* The run has fitted its preprocessor.
PastFit == tpc \notin {"idle", "load", "fit"}

\* C13. One fit per run, on the training split only.  A run fits its
\* Transformer once, on the training split of its data file; the artifact is
\* the same from then on: it transforms the training and the test split, the
\* Predictor is fitted on its output, and it is the object that is persisted.
\* predict_gpa only transforms with the artifact it loaded: no call adds a fit,
\* and the statistics and vocabulary it uses are those computed from the
\* training split of the run that wrote the artifact.
C13_FittedOncePerRun ==
    /\ \A r \in 1..run :
          /\ Cardinality(FitsOf(r)) <= 1
          /\ \A e \in FitsOf(r) :
                /\ fit_log[e].rows = data_file[r].X_train
                /\ fit_log[e].art = Tagged(FitTransformer(data_file[r].X_train), r)
    /\ PastFit =>
          /\ Cardinality(FitsOf(run)) = 1
          /\ \A e \in FitsOf(run) : main_preprocessor = fit_log[e].art
          /\ X_train_processed = TransformAll(main_preprocessor, X_train)
          /\ X_test_processed # <<>> =>
                X_test_processed = TransformAll(main_preprocessor, X_test)
          /\ lr_model # NoObj =>
                /\ lr_model = Tagged(LinearRegressionFit(X_train_processed, y_train), run)
                /\ Len(lr_model.coef) = OutputDim(main_preprocessor)
    /\ files[PreprocessorFile].state = "pickle" =>
          \E e \in FitsOf(WrittenBy(PreprocessorFile)) :
             files[PreprocessorFile].obj = fit_log[e].art
    /\ preprocessor # NoObj =>
          /\ preprocessor =
                Tagged(FitTransformer(data_file[preprocessor.run].X_train),
                       preprocessor.run)
          /\ input_processed # <<>> =>
                input_processed = Transform(preprocessor, input_df).vec

\* A call returned a value computed with the artifact of the second run,
\* which that run had fitted once and used for both splits.
C13_Witness ==
    /\ Returned
    /\ preprocessor.run = 2
    /\ Cardinality(FitsOf(2)) = 1
    /\ X_test_processed # <<>>
    /\ files[PreprocessorFile].obj = main_preprocessor

-----------------------------------------------------------------------------
(* The prediction form, src/gui.py:116-127 and 229-312 *)

\* A text is the sequence of its characters.
DigitOf(ch) ==
    CASE ch = "0" -> 0 [] ch = "1" -> 1 [] ch = "2" -> 2 [] ch = "3" -> 3
      [] ch = "4" -> 4 [] ch = "5" -> 5 [] ch = "6" -> 6 [] ch = "7" -> 7
      [] ch = "8" -> 8 [] ch = "9" -> 9 [] OTHER -> -1

IsDigits(t) == \A i \in DOMAIN t : DigitOf(t[i]) >= 0

RECURSIVE DigitsValue(_)
DigitsValue(t) ==
    IF t = <<>> THEN 0
    ELSE DigitsValue(SubSeq(t, 1, Len(t) - 1)) * 10 + DigitOf(t[Len(t)])

RECURSIVE Strip(_)
\* str.strip(): blanks at both ends are dropped.
Strip(t) ==
    IF t # <<>> /\ Head(t) = " " THEN Strip(Tail(t))
    ELSE IF t # <<>> /\ t[Len(t)] = " " THEN Strip(SubSeq(t, 1, Len(t) - 1))
    ELSE t

\* The sign of a stripped numeral and what follows it.
SignOf(t) == IF t # <<>> /\ Head(t) = "-" THEN -1 ELSE 1
Unsigned(t) == IF t # <<>> /\ Head(t) \in {"-", "+"} THEN Tail(t) ELSE t

ParseError == [ok |-> FALSE, nan |-> FALSE, v |-> 0]
Parsed(v) == [ok |-> TRUE, nan |-> FALSE, v |-> v]

\* int(text): blanks around, an optional sign, one or more digits; anything
\* else raises ValueError.
ParseInt(text) ==
    LET body == Unsigned(Strip(text))
    IN IF body # <<>> /\ IsDigits(body)
       THEN Parsed(SignOf(Strip(text)) * DigitsValue(body))
       ELSE ParseError

\* Position of the decimal point of a numeral, 0 when it has none.
PointAt(t) == IF \E i \in DOMAIN t : t[i] = "."
              THEN CHOOSE i \in DOMAIN t : t[i] = "." /\ \A j \in 1..(i - 1) : t[j] # "."
              ELSE 0

\* float(text), in hundredths: "nan" gives NaN; digits with at most one point
\* give their value (the sampled texts have at most two decimals and no
\* exponent); anything else raises ValueError.
ParseFloat(text) ==
    LET body == Unsigned(Strip(text))
        p == PointAt(body)
        whole == IF p = 0 THEN body ELSE SubSeq(body, 1, p - 1)
        frac == IF p = 0 THEN <<>> ELSE SubSeq(body, p + 1, Len(body))
    IN IF body = <<"n", "a", "n">> THEN [ok |-> TRUE, nan |-> TRUE, v |-> 0]
       ELSE IF /\ IsDigits(whole)
               /\ IsDigits(frac)
               /\ Len(whole) + Len(frac) > 0
               /\ Len(frac) <= 2
       THEN Parsed(SignOf(Strip(text))
                   * (DigitsValue(whole) * 100
                      + (IF Len(frac) = 1 THEN 10 ELSE 1) * DigitsValue(frac)))
       ELSE ParseError

\* dtype of each entry field, src/gui.py:120-126 and 252-258
EntryFields == Range(numeric_features)
DTypeOfEntry(f) == IF f = "homework_completion" THEN "float" ELSE "int"
Convert(f, text) == IF DTypeOfEntry(f) = "float" THEN ParseFloat(text) ELSE ParseInt(text)

\* _validate_input, lines 229-240: the key validation of an entry accepts the
\* empty text and every text its dtype converts.
validate_input(value, f) == value = <<>> \/ Convert(f, value).ok

\* range_checks, lines 252-258 (homework_completion in hundredths)
range_checks ==
    [attendance |-> <<20, 32>>, homework_completion |-> <<60, 100>>,
     lib_borrow |-> <<0, 10>>, class_interaction |-> <<0, 20>>,
     exam_score |-> <<60, 100>>]

\* Lines 259-263 for one field: the conversion raises, or the value fails
\* min_val <= val <= max_val (a NaN fails every comparison).
FieldError(f, text) ==
    LET c == Convert(f, text)
    IN \/ ~c.ok
       \/ c.nan
       \/ c.v < range_checks[f][1]
       \/ c.v > range_checks[f][2]

\* Texts a user types or pastes into an entry, by field.
SampleTexts ==
    [attendance |-> {<<"3", "0">>, <<"1", "9">>},
     homework_completion |-> {<<"0", ".", "9", "8">>, <<"1", ".", "5">>, <<"n", "a", "n">>},
     lib_borrow |-> {<<" ", "4">>},
     class_interaction |-> {<<"1", "8">>, <<"-", "1">>},
     exam_score |-> {<<"9", "5">>, <<"a", "b", "c">>, <<"9", "5", ".", "5">>}]

\* Colleges chosen in the combo box: one that every sampled training split
\* holds and one that TrainA lacks.
SampleMajors == {1, 3}

ShowError(title) == [kind |-> "showerror", title |-> title]
ShowInfo(title) == [kind |-> "showinfo", title |-> title]


\* Mutant of get_input_data: the values are converted and not compared with
\* their ranges.
get_input_data_unchecked(form) ==
    LET bad == SelectInOrder(numeric_features,
                             {f \in EntryFields : ~Convert(f, form[f]).ok})
    IN IF bad # <<>>
       THEN [ok |-> FALSE, field |-> Head(bad), data |-> <<>>]
       ELSE [ok |-> TRUE, field |-> "",
             data |-> [k \in Keys |->
                          IF k \in EntryFields
                          THEN Cell(DTypeOfEntry(k), Convert(k, form[k]).v)
                          ELSE Cell(TypeOfFeature(k), form[k])]]

\* _get_input_data, lines 242-271: every widget is read, each entry is
\* converted and range-checked in the order of range_checks; the first field
\* that fails makes the function show an error and return None.
get_input_data(form) ==
    LET bad == SelectInOrder(numeric_features,
                             {f \in EntryFields : FieldError(f, form[f])})
    IN IF bad # <<>>
       THEN [ok |-> FALSE, field |-> Head(bad), data |-> <<>>]
       ELSE [ok |-> TRUE, field |-> "",
             data |-> [k \in Keys |->
                          IF k \in EntryFields
                          THEN Cell(DTypeOfEntry(k), Convert(k, form[k]).v)
                          ELSE Cell(TypeOfFeature(k), form[k])]]

\* Lines 291-298: the rating of a predicted GPA (hundredths).
Rating(gpa) ==
    IF gpa >= 350 THEN "excellent"
    ELSE IF gpa >= 250 THEN "good"
    ELSE IF gpa >= 150 THEN "pass"
    ELSE "warning"

\* Lines 305-309: one line per feature of input_data, in dict order.
DetailLines(items) ==
    [i \in DOMAIN required_features |->
        [feat |-> required_features[i], val |-> items[required_features[i]]]]

\* The user types or pastes a text into an entry; the key validation of lines
\* 164-165 refuses a text that _validate_input rejects.
EditEntry ==
    /\ gui_pc = "ready"
    /\ \E f \in EntryFields : \E text \in SampleTexts[f] :
          input_vars' = IF validate_input(text, f)
                        THEN [input_vars EXCEPT ![f] = text]
                        ELSE input_vars
    /\ messagebox' = NoDialog
    /\ UNCHANGED <<gui_pc, displayVars>>
    /\ UNCHANGED <<storageVars, predictVars, cleanVars, trainVars>>

\* The user picks a college in the combo box or an option of a radio group.
SelectOption ==
    /\ gui_pc = "ready"
    /\ \/ \E m \in SampleMajors : input_vars' = [input_vars EXCEPT !["major"] = m]
       \/ \E v \in {0, 1} : input_vars' = [input_vars EXCEPT !["gender"] = v]
    /\ messagebox' = NoDialog
    /\ UNCHANGED <<gui_pc, displayVars>>
    /\ UNCHANGED <<storageVars, predictVars, cleanVars, trainVars>>

\* _predict, lines 273-282: the button was pressed; the form is read and
\* checked, and predict_gpa is entered only with a dict that passed.
GetInputData ==
    /\ gui_pc = "ready"
    /\ LET input_data == get_input_data(input_vars)
       IN IF ~input_data.ok
          THEN /\ messagebox' = ShowError("input")
               /\ UNCHANGED <<gui_pc, predictVars>>
          ELSE /\ new_student_data' = Dict(input_data.data)
               /\ pc' = "start"
               /\ model' = NoObj
               /\ preprocessor' = NoObj
               /\ input_df' = NoFrame
               /\ input_processed' = <<>>
               /\ raw_pred' = 0
               /\ outcome' = NoOutcome
               /\ gui_pc' = "predicting"
               /\ messagebox' = NoDialog
    /\ UNCHANGED <<input_vars, displayVars>>
    /\ UNCHANGED <<storageVars, cleanVars, trainVars>>

\* _predict, lines 283-312: predict_gpa raised, an error dialog is shown and
\* the handler returns; or it returned, the two labels and the detail text
\* are rewritten and the result is announced.
ShowResult ==
    /\ gui_pc = "predicting"
    /\ pc = "done"
    /\ IF outcome.kind = "raise"
       THEN /\ messagebox' = ShowError(IF outcome.exc = "FileNotFoundError"
                                       THEN "model_missing" ELSE "predict_failed")
            /\ UNCHANGED displayVars
       ELSE /\ gpa_var' = [set |-> TRUE, value |-> outcome.value]
            /\ rating_var' = Rating(outcome.value)
            /\ detail_text' = DetailLines(new_student_data.items)
            /\ messagebox' = ShowInfo("predicted")
    /\ gui_pc' = "ready"
    /\ UNCHANGED input_vars
    /\ UNCHANGED <<storageVars, predictVars, cleanVars, trainVars>>

\* The models directory as the window may find it: missing, or holding the
\* preprocessor fitted on TrainA and a model that is absent, corrupt, fitted
\* on its output, or fitted on another number of columns.
GuiStorage ==
    {f \in SampleFiles :
        /\ f[PreprocessorFile] = Pickle(FitTransformer(TrainA))
        /\ f[ModelFile] \in
              {Absent, Corrupt,
               Pickle(Regression(OutputDim(FitTransformer(TrainA)), 200)),
               Pickle(Regression(OutputDim(FitTransformer(TrainB)), 200))}}

\* The window after __init__: empty entries, the first option of each radio
\* group and of the combo box, no result yet.
GuiInit ==
    /\ project_root_isdir = TRUE
    /\ \/ models_dir_exists = FALSE /\ files = NoFiles
       \/ models_dir_exists = TRUE /\ files \in GuiStorage
    /\ input_vars = [k \in Keys |-> IF k \in EntryFields THEN <<>>
                                    ELSE IF k = "major" THEN 1 ELSE 0]
    /\ gui_pc = "ready"
    /\ gpa_var = NoGpa
    /\ rating_var = NoRating
    /\ detail_text = NoLines
    /\ messagebox = NoDialog
    /\ NoCall
    /\ CleanIdle
    /\ TrainIdle

GuiNext ==
    \/ EditEntry
    \/ SelectOption
    \/ GetInputData
    \/ PredictNext
    \/ ShowResult

\* The window of gui.py: the user edits the form and presses the button.
SpecGui == GuiInit /\ [][GuiNext]_vars

-----------------------------------------------------------------------------
(* Properties of the prediction form, checked under SpecGui *)

\* The ranges the form declares, in the unit of the model.
DeclaredRange(f) ==
    CASE f = "attendance" -> 20..32
      [] f = "homework_completion" -> 60..100
      [] f = "lib_borrow" -> 0..10
      [] f = "class_interaction" -> 0..20
      [] f = "exam_score" -> 60..100

\* A numeric field is empty or does not convert, or its value is no number
\* of its declared range.
FormInvalid ==
    \E f \in EntryFields :
       LET c == Convert(f, input_vars[f])
       IN ~c.ok \/ c.nan \/ c.v \notin DeclaredRange(f)

\* C19. GUI prediction path: a press of the button on an invalid form shows an
\* error and does not enter predict_gpa; a prediction that ends with an
\* exception shows an error; and the displayed GPA, the displayed rating and
\* the detail text change in no step but the one that ends a prediction which
\* returned a value, so a failed attempt leaves all three as they were.
C19_GuiPredictionPath ==
    [][/\ (GetInputData /\ FormInvalid) =>
             /\ messagebox' = ShowError("input")
             /\ gui_pc' = "ready"
             /\ UNCHANGED predictVars
             /\ UNCHANGED displayVars
       /\ (ShowResult /\ outcome.kind = "raise") =>
             /\ messagebox'.kind = "showerror"
             /\ UNCHANGED displayVars
       /\ \/ UNCHANGED displayVars
          \/ gui_pc = "predicting" /\ pc = "done" /\ outcome.kind = "return"
      ]_vars

\* After a prediction was displayed, a press on a form with a value out of
\* range showed the input error: the result of the earlier call is still there.
C19_Witness ==
    /\ messagebox = ShowError("input")
    /\ gpa_var.set
    /\ detail_text # NoLines
    /\ outcome.kind = "return"
    /\ input_vars["attendance"] = <<"1", "9">>

====
